---- MODULE Spec2Model ----
(***************************************************************************)
(* A model of search_ensemble_for_bestfit_model.py: the discovery of       *)
(* SeisSol output directories, the loading of surface receivers, the       *)
(* cross-correlation alignment, the RMS misfit and the best-fit selection. *)
(*                                                                         *)
(* File names are sequences of tokens: "-" and "." are tokens of their     *)
(* own, so splitting a name on them is splitting the sequence, and the     *)
(* concatenation of the tokens' characters is the name as Python sees it.  *)
(* Real numbers are held in units of 1/Resolution and rounded to MantBits  *)
(* significant bits after every floating-point operation (the program      *)
(* computes in IEEE doubles, 53 significant bits).                         *)
(***************************************************************************)
EXTENDS Integers, Sequences, FiniteSets, Bags, TLC

VARIABLES pc, call, ret, args, obs_data, syn_data, model_dir_names,
          model_misfits, loop_i, min_ind, stdout

vars == <<pc, call, ret, args, obs_data, syn_data, model_dir_names,
          model_misfits, loop_i, min_ind, stdout>>

None == "None"

(***************************************************************************)
(* Bounds of the model.                                                    *)
(***************************************************************************)
MaxFiles == 3
MaxEntries == 3
MaxLen == 3
MaxN == 3
MaxSta == 2
MaxSample == 2
Resolution == 100
MantBits == 6

(***************************************************************************)
(* Sequences.                                                              *)
(***************************************************************************)
Range(s) == {s[k] : k \in DOMAIN s}

Last(s) == s[Len(s)]

SeqsUpTo(S, n) == UNION {[1..m -> S] : m \in 0..n}

\* the listings os.listdir can return: no name twice, any order
Listings(S, n) == {s \in SeqsUpTo(S, n) : \A a, b \in DOMAIN s : a # b => s[a] # s[b]}

(***************************************************************************)
(* Strings: the characters of a token, and Python's order on strings.      *)
(***************************************************************************)
Chars(tok) ==
    CASE tok = "-" -> <<45>>
      [] tok = "." -> <<46>>
      [] tok = "1" -> <<49>>
      [] tok = "2" -> <<50>>
      [] tok = "3" -> <<51>>
      [] tok = "a" -> <<97>>
      [] tok = "b" -> <<98>>
      [] tok = "c" -> <<99>>
      [] tok = "x" -> <<120>>
      [] tok = "bak" -> <<98, 97, 107>>
      [] tok = "dat" -> <<100, 97, 116>>
      [] tok = "txt" -> <<116, 120, 116>>
      [] tok = "xdmf" -> <<120, 100, 109, 102>>
      [] tok = "surface" -> <<115, 117, 114, 102, 97, 99, 101>>
      [] tok = "receiver" -> <<114, 101, 99, 101, 105, 118, 101, 114>>

RECURSIVE Codes(_)
Codes(name) ==
    IF name = <<>> THEN <<>> ELSE Chars(Head(name)) \o Codes(Tail(name))

\* a < b for sequences of code points, as Python compares str
RECURSIVE CodesLess(_, _)
CodesLess(a, b) ==
    IF b = <<>> THEN FALSE
    ELSE IF a = <<>> THEN TRUE
    ELSE IF Head(a) # Head(b) THEN Head(a) < Head(b)
    ELSE CodesLess(Tail(a), Tail(b))

StrLess(a, b) == CodesLess(Codes(a), Codes(b))

\* list.sort() on a list of distinct strings
RECURSIVE SortNames(_)
SortNames(names) ==
    IF names = <<>> THEN <<>>
    ELSE LET k == CHOOSE k \in DOMAIN names :
                      \A m \in DOMAIN names : m = k \/ StrLess(names[k], names[m])
             rest == [m \in 1..(Len(names) - 1) |->
                          IF m < k THEN names[m] ELSE names[m + 1]]
         IN  <<names[k]>> \o SortNames(rest)

\* str.split(sep): the pieces between the separators, empty pieces kept
RECURSIVE Split(_, _)
Split(name, sep) ==
    IF \A k \in DOMAIN name : name[k] # sep THEN <<name>>
    ELSE LET k == CHOOSE k \in DOMAIN name :
                      name[k] = sep /\ \A m \in 1..(k - 1) : name[m] # sep
         IN  <<SubSeq(name, 1, k - 1)>> \o Split(SubSeq(name, k + 1, Len(name)), sep)

(***************************************************************************)
(* check_if_seissol_surface_receiver_file                                  *)
(***************************************************************************)
check_if_seissol_surface_receiver_file(filename) ==
    LET out1 == <<"receiver">> \in Range(Split(filename, "-"))
    IN  IF Last(Split(filename, ".")) # <<"dat">> THEN FALSE ELSE out1

is_surface_xdmf_name(filename) == Last(Split(filename, "-")) = <<"surface", ".", "xdmf">>

(***************************************************************************)
(* check_if_seissol_dir.  A directory is [listing, defect, data]: the      *)
(* names in os.listdir's order, the names on which the seissolxdmf open or *)
(* ReadNElements raises, and the receiver files' contents.  The result is  *)
(* the returned flag and the names printed with the defect diagnostic.     *)
(***************************************************************************)
\* variant: a defect file resets out
RECURSIVE xdmf_loop_defect_resets(_, _, _)
xdmf_loop_defect_resets(dir, k, acc) ==
    IF k > Len(dir.listing) THEN acc
    ELSE LET i == dir.listing[k]
         IN  IF is_surface_xdmf_name(i)
             THEN IF i \in dir.defect
                  THEN xdmf_loop_defect_resets(dir, k + 1, [acc EXCEPT !.printed = @ \o <<i>>,
                                                                      !.out = FALSE])
                  ELSE xdmf_loop_defect_resets(dir, k + 1, [acc EXCEPT !.out = TRUE])
             ELSE xdmf_loop_defect_resets(dir, k + 1, acc)

RECURSIVE xdmf_loop(_, _, _)
xdmf_loop(dir, k, acc) ==
    IF k > Len(dir.listing) THEN acc
    ELSE LET i == dir.listing[k]
         IN  IF is_surface_xdmf_name(i)
             THEN IF i \in dir.defect
                  THEN xdmf_loop(dir, k + 1, [acc EXCEPT !.printed = @ \o <<i>>])
                  ELSE xdmf_loop(dir, k + 1, [acc EXCEPT !.out = TRUE])
             ELSE xdmf_loop(dir, k + 1, acc)

count_surface_receiver(files) ==
    Cardinality({k \in DOMAIN files : check_if_seissol_surface_receiver_file(files[k])})

\* variant: a directory without receivers is not rejected
check_if_seissol_dir_no_count(dir) ==
    IF dir.kind # "dir"
    THEN [out |-> FALSE, printed |-> <<>>, raised |-> TRUE]
    ELSE LET r == xdmf_loop(dir, 1, [out |-> FALSE, printed |-> <<>>])
         IN  [out |-> r.out, printed |-> r.printed, raised |-> FALSE]

check_if_seissol_dir(dir) ==
    IF dir.kind # "dir"
    THEN [out |-> FALSE, printed |-> <<>>, raised |-> TRUE]
    ELSE LET r == xdmf_loop(dir, 1, [out |-> FALSE, printed |-> <<>>])
             number_surface_receiver == count_surface_receiver(dir.listing)
         IN  [out |-> IF number_surface_receiver = 0 THEN FALSE ELSE r.out,
              printed |-> r.printed,
              raised |-> FALSE]

(***************************************************************************)
(* collect_seissol_dirs.  A root is [listing, entries]: the names in       *)
(* os.listdir's order and what each names, a directory as above with kind  *)
(* "dir", or something os.listdir raises on (kind "file": not a directory, *)
(* kind "noperm": permission denied).                                      *)
(***************************************************************************)
RECURSIVE collect_loop(_, _, _)
collect_loop(root, k, acc) ==
    IF k > Len(root.listing) THEN acc
    ELSE LET i == root.listing[k]
             c == check_if_seissol_dir(root.entries[i])
             seen == [acc EXCEPT !.printed = @ \o [n \in DOMAIN c.printed |-> <<i, c.printed[n]>>],
                                 !.tried = @ \o <<i>>]
         IN  IF c.raised THEN collect_loop(root, k + 1, [acc EXCEPT !.tried = @ \o <<i>>])
             ELSE IF c.out THEN collect_loop(root, k + 1, [seen EXCEPT !.dirs = @ \o <<i>>])
             ELSE collect_loop(root, k + 1, seen)

\* variant: dirs is returned as collected, unsorted
collect_seissol_dirs_unsorted(root) ==
    collect_loop(root, 1, [dirs |-> <<>>, printed |-> <<>>, tried |-> <<>>])

collect_seissol_dirs(root) ==
    LET r == collect_loop(root, 1, [dirs |-> <<>>, printed |-> <<>>, tried |-> <<>>])
    IN  [r EXCEPT !.dirs = SortNames(@)]

(***************************************************************************)
(* Numbers.  Ok and Raise are a call's two outcomes.                       *)
(***************************************************************************)
Ok(v) == [err |-> None, val |-> v]

Raise(e) == [err |-> e, val |-> None]

Min(a, b) == IF a < b THEN a ELSE b

Max(a, b) == IF a > b THEN a ELSE b

RECURSIVE Pow2(_)
Pow2(n) == IF n = 0 THEN 1 ELSE 2 * Pow2(n - 1)

RECURSIVE BitLen(_)
BitLen(x) == IF x = 0 THEN 0 ELSE 1 + BitLen(x \div 2)

\* round-to-nearest-even of x >= 0 to MantBits significant bits
Fl(x) ==
    IF BitLen(x) <= MantBits THEN x
    ELSE LET step == Pow2(BitLen(x) - MantBits)
             q == x \div step
             r == x % step
             up == 2 * r > step \/ (2 * r = step /\ q % 2 = 1)
         IN  (IF up THEN q + 1 ELSE q) * step

RECURSIVE FloorSqrt(_, _, _)
FloorSqrt(x, lo, hi) ==
    IF lo >= hi THEN lo
    ELSE LET mid == (lo + hi + 1) \div 2
         IN  IF mid * mid <= x THEN FloorSqrt(x, mid, hi) ELSE FloorSqrt(x, lo, mid - 1)

\* np.sqrt of num/den, in units of 1/Resolution, correctly rounded
Sqrt(num, den) ==
    LET x == (num * Resolution * Resolution) \div den
        r == FloorSqrt(x, 0, Min(x, 40000))
    IN  Fl(IF x - r * r > r THEN r + 1 ELSE r)

\* the sum of two doubles
FAdd(a, b) == Fl(a + b)

RECURSIVE SumSeq(_)
SumSeq(s) == IF s = <<>> THEN 0 ELSE Head(s) + SumSeq(Tail(s))

\* s[a:b] for 0 <= a
PySlice(s, a, b) == SubSeq(s, a + 1, Min(b, Len(s)))

\* s[:k], k of either sign
PyPrefix(s, k) == IF k >= 0 THEN SubSeq(s, 1, Min(k, Len(s))) ELSE SubSeq(s, 1, Len(s) + k)

(***************************************************************************)
(* scipy.signal.correlate(in1, in2, mode="valid") and np.argmax            *)
(***************************************************************************)
correlate(in1, in2) ==
    IF Len(in1) >= Len(in2)
    THEN [k \in 1..(Len(in1) - Len(in2) + 1) |->
              SumSeq([l \in 1..Len(in2) |-> in1[l + k - 1] * in2[l]])]
    ELSE [m \in 1..(Len(in2) - Len(in1) + 1) |->
              SumSeq([l \in 1..Len(in1) |-> in1[l] * in2[l + (Len(in2) - Len(in1)) - (m - 1)]])]

\* the 0-based index of the first maximum
argmax(a) == (CHOOSE k \in DOMAIN a :
                  /\ \A m \in DOMAIN a : a[m] <= a[k]
                  /\ \A m \in 1..(k - 1) : a[m] < a[k]) - 1

\* variant: the index of the last minimum
argmin_last(a) == (CHOOSE k \in DOMAIN a :
                       /\ \A m \in DOMAIN a : a[m] >= a[k]
                       /\ \A m \in (k + 1)..Len(a) : a[m] > a[k]) - 1

argmin(a) == (CHOOSE k \in DOMAIN a :
                  /\ \A m \in DOMAIN a : a[m] >= a[k]
                  /\ \A m \in 1..(k - 1) : a[m] > a[k]) - 1

(***************************************************************************)
(* correlate_and_shift_waveforms, calculate_rms_misfit                     *)
(***************************************************************************)
\* variant: the slice starts one sample late
correlate_and_shift_waveforms_late(obs_trace, syn_trace) ==
    IF Len(obs_trace) = 0 \/ Len(syn_trace) = 0 THEN Raise("ValueError")
    ELSE LET start_ind == argmax(correlate(obs_trace, syn_trace))
         IN  Ok(PySlice(obs_trace, start_ind + 1, start_ind + 1 + Len(syn_trace)))

\* variant: the correlation peak is not used, the slice starts at 0
correlate_and_shift_waveforms_unshifted(obs_trace, syn_trace) ==
    IF Len(obs_trace) = 0 \/ Len(syn_trace) = 0 THEN Raise("ValueError")
    ELSE Ok(PySlice(obs_trace, 0, Len(syn_trace)))

correlate_and_shift_waveforms(obs_trace, syn_trace) ==
    IF Len(obs_trace) = 0 \/ Len(syn_trace) = 0 THEN Raise("ValueError")
    ELSE LET start_ind == argmax(correlate(obs_trace, syn_trace))
         IN  Ok(PySlice(obs_trace, start_ind, start_ind + Len(syn_trace)))

\* obs_trace - syn_trace with numpy's broadcasting of a length-1 operand
Subtract(a, b) ==
    IF Len(a) = Len(b) THEN Ok([k \in 1..Len(a) |-> a[k] - b[k]])
    ELSE IF Len(a) = 1 THEN Ok([k \in 1..Len(b) |-> a[1] - b[k]])
    ELSE IF Len(b) = 1 THEN Ok([k \in 1..Len(a) |-> a[k] - b[1]])
    ELSE Raise("ValueError")

calculate_rms_misfit(obs_trace, syn_trace) ==
    LET d == Subtract(obs_trace, syn_trace)
    IN  IF d.err # None THEN d
        ELSE IF Len(syn_trace) = 0 THEN Ok("nan")
        ELSE Ok(Sqrt(SumSeq([k \in DOMAIN d.val |-> d.val[k] * d.val[k]]), Len(syn_trace)))

(***************************************************************************)
(* calculate_summed_model_misfit.  A station record is a sequence of       *)
(* stations, each the 4 rows time, v1, v2, v3.                             *)
(***************************************************************************)
\* variant: the synthetic trace is always taken from station 0
trace_misfit_first_syn(obs, syn, i, j) ==
    IF i + 1 > Len(syn) THEN Raise("IndexError")
    ELSE LET syn_trace == syn[1][j + 2]
             obs_trace == correlate_and_shift_waveforms(obs[i + 1][j + 2], syn_trace)
         IN  IF obs_trace.err # None THEN obs_trace
             ELSE calculate_rms_misfit(obs_trace.val, syn_trace)

trace_misfit(obs, syn, i, j) ==
    IF i + 1 > Len(syn) THEN Raise("IndexError")
    ELSE LET syn_trace == syn[i + 1][j + 2]
             obs_trace == correlate_and_shift_waveforms(obs[i + 1][j + 2], syn_trace)
         IN  IF obs_trace.err # None THEN obs_trace
             ELSE calculate_rms_misfit(obs_trace.val, syn_trace)

\* variant: the outer loop runs over the synthetic stations
misfit_terms_over_syn(obs, syn) ==
    [k \in 1..(3 * Len(syn)) |->
        IF (k - 1) \div 3 + 1 > Len(obs) THEN Raise("IndexError")
        ELSE trace_misfit(obs, syn, (k - 1) \div 3, (k - 1) % 3)]

\* the values added to misfit, in the order of the two loops
misfit_terms(obs, syn) ==
    [k \in 1..(3 * Len(obs)) |->
        trace_misfit(obs, syn, (k - 1) \div 3, (k - 1) % 3)]

RECURSIVE misfit_loop(_, _, _)
misfit_loop(terms, k, misfit) ==
    IF k > Len(terms) THEN Ok(misfit)
    ELSE IF terms[k].err # None THEN terms[k]
    ELSE misfit_loop(terms, k + 1, FAdd(misfit, terms[k].val))

calculate_summed_model_misfit(obs, syn) ==
    misfit_loop(misfit_terms(obs, syn), 1, 0)

(***************************************************************************)
(* load_seissol_surface_receiver.  A receiver file is a sequence of lines  *)
(* [numeric, cols]: the descriptive lines are not numeric, a data row has  *)
(* its columns in cols.                                                    *)
(***************************************************************************)
skiprows == 5

usecols == <<0, 7, 8, 9>>

\* np.loadtxt(filename, skiprows, usecols): one-dimensional axes are squeezed,
\* so one data row gives shape (4,) and none gives shape (0,)
loadtxt(file) ==
    LET rows == SubSeq(file, skiprows + 1, Len(file))
    IN  IF \E k \in DOMAIN rows :
               ~rows[k].numeric \/ \E c \in DOMAIN usecols : usecols[c] + 1 > Len(rows[k].cols)
        THEN Raise("ValueError")
        ELSE Ok([ndim |-> IF Len(rows) <= 1 THEN 1 ELSE 2,
                 rows |-> [k \in DOMAIN rows |->
                              [c \in DOMAIN usecols |-> rows[k].cols[usecols[c] + 1]]]])

load_seissol_surface_receiver(file, final_ind) ==
    LET l == loadtxt(file)
    IN  IF l.err # None THEN l
        ELSE IF l.val.ndim # 2 THEN Raise("IndexError")
        ELSE LET data == [c \in DOMAIN usecols |-> [t \in DOMAIN l.val.rows |-> l.val.rows[t][c]]]
             IN  Ok([c \in DOMAIN data |-> PyPrefix(data[c], final_ind)])

(***************************************************************************)
(* load_all_seissol_receivers_from_dir, load_observations                  *)
(***************************************************************************)
\* the names of a listing that pass the naming rule, in the listing's order
RECURSIVE receiver_names(_)
receiver_names(files) ==
    IF files = <<>> THEN <<>>
    ELSE (IF check_if_seissol_surface_receiver_file(Head(files)) THEN <<Head(files)>> ELSE <<>>)
         \o receiver_names(Tail(files))

\* the calls of a loop, made in order: the first exception propagates, or the
\* list of the results is returned
Gather(data) ==
    IF \E k \in DOMAIN data : data[k].err # None
    THEN Raise(data[CHOOSE k \in DOMAIN data :
                        data[k].err # None /\ \A m \in 1..(k - 1) : data[m].err = None].err)
    ELSE Ok([k \in DOMAIN data |-> data[k].val])

\* lines 53-56, for the sorted list surface_receiver
load_receivers(dir, surface_receiver, final_ind) ==
    Gather([k \in DOMAIN surface_receiver |->
                load_seissol_surface_receiver(dir.files[surface_receiver[k]], final_ind)])

load_all_seissol_receivers_from_dir(dir, final_ind) ==
    IF dir.kind # "dir" THEN Raise("OSError")
    ELSE load_receivers(dir, SortNames(receiver_names(dir.listing)), final_ind)

default_final_ind == -1

load_observations(dir) == load_all_seissol_receivers_from_dir(dir, default_final_ind)

\* ndarray.shape of np.array(list) for a list of equally shaped arrays
RECURSIVE Shape(_, _)
Shape(a, ndim) ==
    IF ndim = 0 THEN <<>>
    ELSE IF Len(a) = 0 THEN <<0>>
    ELSE <<Len(a)>> \o Shape(a[1], ndim - 1)

(***************************************************************************)
(* load_ensemble_waveforms                                                 *)
(***************************************************************************)
\* lines 112-120, for the result c of collect_seissol_dirs
load_models(root, c, final_ind) ==
    LET g == Gather([k \in DOMAIN c.dirs |->
                        load_all_seissol_receivers_from_dir(root.entries[c.dirs[k]], final_ind)])
    IN  [err |-> g.err, val |-> g.val, dirs |-> c.dirs,
         printed |-> c.printed
                     \o <<<<"Reading synthetic data from the following directories:", c.dirs>>>>]

\* variant: final_ind is not passed on to the loader
load_ensemble_waveforms_default_ind(root, final_ind) ==
    load_models(root, collect_seissol_dirs(root), default_final_ind)

load_ensemble_waveforms(root, final_ind) ==
    load_models(root, collect_seissol_dirs(root), final_ind)

(***************************************************************************)
(* The calls of one function on inputs drawn from bounded sets: call holds *)
(* the arguments, ret the result once pc is "returned".                    *)
(***************************************************************************)
RunIdle ==
    /\ args = None /\ obs_data = None /\ syn_data = None /\ model_dir_names = None
    /\ model_misfits = None /\ loop_i = None /\ min_ind = None /\ stdout = <<>>

RunVars == <<args, obs_data, syn_data, model_dir_names, model_misfits, loop_i, min_ind, stdout>>

Returned(fn) == pc = "returned" /\ call.fn = fn

\* file names
XdmfA == <<"a", "-", "surface", ".", "xdmf">>
XdmfB == <<"b", "-", "surface", ".", "xdmf">>
XdmfBare == <<"surface", ".", "xdmf">>
XdmfBak == <<"a", "-", "surface", ".", "xdmf", ".", "bak">>
Receiver1 == <<"receiver", "-", "1", ".", "dat">>
Receiver2 == <<"receiver", "-", "2", ".", "dat">>
ReceiverX == <<"x", "-", "receiver", "-", "3", ".", "dat">>
ReceiverNoDash == <<"receiver", ".", "dat">>
ReceiverTxt == <<"receiver", "-", "1", ".", "txt">>
XReceiver == <<"x", "receiver", "-", "1", ".", "dat">>

Directory(listing, defect, files) ==
    [kind |-> "dir", listing |-> listing, defect |-> defect, files |-> files]

NoFiles == <<>>

----------------------------------------------------------------------------
(***************************************************************************)
(* SpecDir: check_if_seissol_dir on every listing of up to MaxFiles of the *)
(* names below, with every choice of the surface.xdmf files that fail.     *)
(***************************************************************************)
DirFileNames ==
    {XdmfA, XdmfB, XdmfBare, XdmfBak, Receiver1, ReceiverNoDash, ReceiverTxt, XReceiver}

DirInit ==
    /\ pc = "call"
    /\ \E l \in Listings(DirFileNames, MaxFiles) :
           \E d \in SUBSET {n \in Range(l) : is_surface_xdmf_name(n)} :
               call = [fn |-> "check_if_seissol_dir", dir |-> Directory(l, d, NoFiles)]
    /\ ret = None
    /\ RunIdle

CallCheckDir ==
    /\ pc = "call" /\ call.fn = "check_if_seissol_dir"
    /\ ret' = check_if_seissol_dir(call.dir)
    /\ pc' = "returned"
    /\ UNCHANGED <<call, RunVars>>

DirNext == CallCheckDir

SpecDir == DirInit /\ [][DirNext]_vars

\* the characters of a name end with those of suffix
EndsWith(name, suffix) ==
    LET n == Codes(name)
        x == Codes(suffix)
    IN  Len(n) >= Len(x) /\ SubSeq(n, Len(n) - Len(x) + 1, Len(n)) = x

\* the receiver naming rule, by positions: a token "receiver" bounded by "-"
\* or the name's ends, and the extension "dat"
ReceiverRule(name) ==
    /\ \E k \in DOMAIN name :
           /\ name[k] = "receiver"
           /\ (k = 1 \/ name[k - 1] = "-")
           /\ (k = Len(name) \/ name[k + 1] = "-")
    /\ Len(name) >= 2 /\ name[Len(name)] = "dat" /\ name[Len(name) - 1] = "."

HasReceiver(dir) == \E k \in DOMAIN dir.listing : ReceiverRule(dir.listing[k])

SurfaceRule(name) == Codes(name) = Codes(XdmfBare) \/ EndsWith(name, <<"-">> \o XdmfBare)

Metadata(dir) == {n \in Range(dir.listing) : SurfaceRule(n)}

\* C4, as stated: true only if a name ending with "-surface.xdmf" is queried
\* successfully and a name passes the receiver naming rule.
C4_AsStated ==
    Returned("check_if_seissol_dir") /\ ret.out
        => /\ \E n \in Range(call.dir.listing) :
                  EndsWith(n, <<"-">> \o XdmfBare) /\ n \notin call.dir.defect
           /\ HasReceiver(call.dir)

\* C4, amended: the Directory Classifier returns true only if (a) a file whose
\* last "-"-separated piece is "surface.xdmf" (the name "surface.xdmf" itself, or
\* a name ending with "-surface.xdmf") is queried successfully and (b) a name
\* passes the receiver naming rule; with no receiver file it returns false.
C4_TrueOnlyIfMetadataAndReceiver ==
    Returned("check_if_seissol_dir") /\ ret.out
        => /\ \E n \in Metadata(call.dir) : n \notin call.dir.defect
           /\ HasReceiver(call.dir)

C4_Witness ==
    /\ Returned("check_if_seissol_dir") /\ ret.out
    /\ XdmfBare \in Range(call.dir.listing)
    /\ \A n \in Range(call.dir.listing) : ~EndsWith(n, <<"-">> \o XdmfBare)

\* C5, as stated: a metadata file whose query raises gets the diagnostic, the
\* directory is classified false and nothing is raised.
C5_AsStated ==
    Returned("check_if_seissol_dir") /\ Metadata(call.dir) \cap call.dir.defect # {}
        => /\ \A n \in Metadata(call.dir) \cap call.dir.defect : n \in Range(ret.printed)
           /\ ~ret.out
           /\ ~ret.raised

\* C5, amended: every metadata file whose query raises gets the diagnostic and
\* nothing is raised; the directory is classified false unless another metadata
\* file of it is queried successfully and a receiver file is present, in which
\* case it is classified true, whatever the number and order of the files.
C5_DefectDiagnosedNotRaised ==
    Returned("check_if_seissol_dir") /\ Metadata(call.dir) \cap call.dir.defect # {}
        => /\ Range(ret.printed) = Metadata(call.dir) \cap call.dir.defect
           /\ ~ret.raised
           /\ ret.out = (Metadata(call.dir) \ call.dir.defect # {} /\ HasReceiver(call.dir))

C5_Witness ==
    /\ Returned("check_if_seissol_dir") /\ ~ret.out /\ ret.printed # <<>>
    /\ HasReceiver(call.dir)

----------------------------------------------------------------------------
(***************************************************************************)
(* SpecCollect: collect_seissol_dirs on every listing of up to MaxEntries  *)
(* of the names below, each naming one of the entries below.               *)
(***************************************************************************)
EntryNames == {<<"a">>, <<"b">>, <<"a", "b">>, <<"b", "-", "1">>}

Entries ==
    {Directory(<<Receiver1, XdmfA>>, {}, NoFiles),
     Directory(<<XdmfA>>, {}, NoFiles),
     Directory(<<XdmfA, Receiver1>>, {XdmfA}, NoFiles),
     [kind |-> "file", listing |-> <<>>, defect |-> {}, files |-> NoFiles],
     [kind |-> "noperm", listing |-> <<>>, defect |-> {}, files |-> NoFiles]}

CollectInit ==
    /\ pc = "call"
    /\ \E l \in Listings(EntryNames, MaxEntries) :
           \E e \in [Range(l) -> Entries] :
               call = [fn |-> "collect_seissol_dirs", root |-> [listing |-> l, entries |-> e]]
    /\ ret = None
    /\ RunIdle

CallCollect ==
    /\ pc = "call" /\ call.fn = "collect_seissol_dirs"
    /\ ret' = collect_seissol_dirs(call.root)
    /\ pc' = "returned"
    /\ UNCHANGED <<call, RunVars>>

CollectNext == CallCollect

SpecCollect == CollectInit /\ [][CollectNext]_vars

\* C6: the Ensemble Collector returns exactly the names whose classification
\* completes and returns true, in strictly ascending lexicographic order (so no
\* name twice); a candidate on which os.listdir raises is left out, and every
\* candidate of the listing is classified whatever the others do.
C6_CollectedSortedExact ==
    Returned("collect_seissol_dirs")
        => /\ Range(ret.dirs) =
                  {n \in Range(call.root.listing) :
                       /\ call.root.entries[n].kind = "dir"
                       /\ check_if_seissol_dir(call.root.entries[n]).out}
           /\ \A k \in 1..(Len(ret.dirs) - 1) :
                  CodesLess(Codes(ret.dirs[k]), Codes(ret.dirs[k + 1]))
           /\ ret.tried = call.root.listing

C6_Witness ==
    /\ Returned("collect_seissol_dirs")
    /\ Len(ret.dirs) >= 2
    /\ \E k \in DOMAIN call.root.listing : call.root.entries[call.root.listing[k]].kind # "dir"
    /\ ret.dirs # SubSeq(call.root.listing, 1, Len(ret.dirs))

----------------------------------------------------------------------------
(***************************************************************************)
(* SpecTrace: correlate_and_shift_waveforms and calculate_rms_misfit on    *)
(* every observed trace of up to MaxLen samples of -1..MaxSample and every *)
(* contiguous sub-segment of it as the synthetic trace.                    *)
(***************************************************************************)
Samples == (-1)..MaxSample

TraceInit ==
    /\ pc = "call"
    /\ \E n \in 1..MaxLen : \E o \in [1..n -> Samples] : \E a \in 1..n : \E b \in a..n :
           call = [fn |-> "correlate_and_shift_waveforms", obs_trace |-> o,
                   syn_trace |-> SubSeq(o, a, b), offset |-> a - 1]
    /\ ret = None
    /\ RunIdle

CallAlign ==
    /\ pc = "call" /\ call.fn = "correlate_and_shift_waveforms"
    /\ LET aligned == correlate_and_shift_waveforms(call.obs_trace, call.syn_trace)
       IN  ret' = [aligned |-> aligned,
                   rms |-> IF aligned.err # None THEN aligned
                           ELSE calculate_rms_misfit(aligned.val, call.syn_trace)]
    /\ pc' = "returned"
    /\ UNCHANGED <<call, RunVars>>

TraceNext == CallAlign

SpecTrace == TraceInit /\ [][TraceNext]_vars

Dot(a, b) == SumSeq([k \in DOMAIN a |-> a[k] * b[k]])

Windows(o, n) == {SubSeq(o, k, k + n - 1) : k \in 1..(Len(o) - n + 1)}

----------------------------------------------------------------------------
(***************************************************************************)
(* Receiver files: 5 descriptive lines, then one row of 10 columns per     *)
(* timestep.                                                               *)
(***************************************************************************)
HeaderLine == [numeric |-> FALSE, cols |-> <<>>]

Row(t, v1, v2, v3) == [numeric |-> TRUE, cols |-> <<t, 99, 99, 99, 99, 99, 99, v1, v2, v3>>]

ReceiverFile(rows) == <<HeaderLine, HeaderLine, HeaderLine, HeaderLine, HeaderLine>> \o rows

----------------------------------------------------------------------------
(***************************************************************************)
(* SpecLoad: load_all_seissol_receivers_from_dir on every listing of up to *)
(* MaxFiles of the names below, every file holding the same 1..MaxN rows,  *)
(* with final_ind from -1 to past the end.                                 *)
(***************************************************************************)
LoadFileNames == {Receiver1, Receiver2, ReceiverX, XdmfA, ReceiverTxt}

\* the sample of channel c (1: time, 2..4: velocities) at timestep t of a file
SampleOf(name, c, t) ==
    LET s == Len(Codes(name)) + Codes(name)[Len(Codes(name)) - 4]
    IN  CASE c = 1 -> t
          [] c = 2 -> s + t
          [] c = 3 -> -t
          [] c = 4 -> s

FileOf(name, n) ==
    ReceiverFile([t \in 1..n |->
        Row(SampleOf(name, 1, t), SampleOf(name, 2, t), SampleOf(name, 3, t), SampleOf(name, 4, t))])

LoadInit ==
    /\ pc = "call"
    /\ \E l \in Listings(LoadFileNames, MaxFiles) : \E n \in 1..MaxN : \E f \in (-1)..(MaxN + 1) :
           call = [fn |-> "load_all_seissol_receivers_from_dir",
                   dir |-> Directory(l, {}, [x \in Range(l) |-> FileOf(x, n)]),
                   ndt |-> n, final_ind |-> f]
    /\ ret = None
    /\ RunIdle

CallLoad ==
    /\ pc = "call" /\ call.fn = "load_all_seissol_receivers_from_dir"
    /\ ret' = load_all_seissol_receivers_from_dir(call.dir, call.final_ind)
    /\ pc' = "returned"
    /\ UNCHANGED <<call, RunVars>>

LoadNext == CallLoad

SpecLoad == LoadInit /\ [][LoadNext]_vars

\* the names of S in ascending order of their characters
RECURSIVE Ascending(_)
Ascending(S) ==
    IF S = {} THEN <<>>
    ELSE LET least == CHOOSE x \in S : \A y \in S \ {x} : CodesLess(Codes(x), Codes(y))
         IN  <<least>> \o Ascending(S \ {least})

\* the names passing the naming rule, ascending
RuleNames(dir) == Ascending({x \in Range(dir.listing) : ReceiverRule(x)})

Retained(n, final_ind) == IF final_ind >= 0 THEN Min(n, final_ind) ELSE n - 1

LoadedAsClaimed(r, dir, n, final_ind) ==
    LET names == RuleNames(dir)
    IN  /\ r.err = None
        /\ Shape(r.val, 3) = <<Len(names), 4, Retained(n, final_ind)>>
        /\ \A k \in DOMAIN r.val : \A c \in 1..4 : \A t \in 1..Retained(n, final_ind) :
               r.val[k][c][t] = SampleOf(names[k], c, t)

\* C7: for a directory of (at least one) receiver files of N timesteps each,
\* load-directory returns an array of shape (files passing the rule, 4, T), in
\* lexicographic filename order, T = min(N, final_ind) with the samples
\* [0, final_ind) for final_ind >= 0 and T = N - 1 for final_ind = -1.
C7_AsStated ==
    Returned("load_all_seissol_receivers_from_dir") /\ Len(RuleNames(call.dir)) >= 1
        => LoadedAsClaimed(ret, call.dir, call.ndt, call.final_ind)

\* what holds of the code: the same, for files of two timesteps or more
C7_FromTwoTimesteps ==
    (/\ Returned("load_all_seissol_receivers_from_dir")
     /\ Len(RuleNames(call.dir)) >= 1
     /\ call.ndt >= 2)
        => LoadedAsClaimed(ret, call.dir, call.ndt, call.final_ind)

----------------------------------------------------------------------------
(***************************************************************************)
(* SpecMisfit: calculate_summed_model_misfit on 2..MaxSta observed and     *)
(* synthetic stations drawn from the records below, and on the same with   *)
(* the stations of both, or of the synthetics only, permuted.              *)
(***************************************************************************)
ObsStations ==
    {<<<<1, 2, 3>>, <<0, 1, 2>>, <<1, 1, 0>>, <<2, 0, 0>>>>,
     <<<<1, 2, 3>>, <<1, 0, -1>>, <<0, 0, 1>>, <<0, 2, 1>>>>,
     <<<<1, 2, 3>>, <<2, 2, 1>>, <<-1, 0, 0>>, <<1, 1, 1>>>>}

SynStations ==
    {<<<<1, 2>>, <<1, 2>>, <<0, 0>>, <<1, 0>>>>,
     <<<<1, 2>>, <<0, -1>>, <<2, 1>>, <<0, 1>>>>,
     <<<<1, 2>>, <<2, 0>>, <<1, 1>>, <<-1, 2>>>>}

StationOrders(n) == {p \in [1..n -> 1..n] : \A a, b \in 1..n : a # b => p[a] # p[b]}

Permute(a, p) == [k \in DOMAIN a |-> a[p[k]]]

MisfitInit ==
    /\ pc = "call"
    /\ \E n \in 2..MaxSta : \E o \in [1..n -> ObsStations] : \E y \in [1..n -> SynStations] :
       \E p \in StationOrders(n) :
           call = [fn |-> "calculate_summed_model_misfit", obs |-> o, syn |-> y, perm |-> p]
    /\ ret = None
    /\ RunIdle

CallMisfit ==
    /\ pc = "call" /\ call.fn = "calculate_summed_model_misfit"
    /\ ret' = [base |-> calculate_summed_model_misfit(call.obs, call.syn),
               both |-> calculate_summed_model_misfit(Permute(call.obs, call.perm),
                                                      Permute(call.syn, call.perm)),
               one |-> calculate_summed_model_misfit(call.obs, Permute(call.syn, call.perm))]
    /\ pc' = "returned"
    /\ UNCHANGED <<call, RunVars>>

MisfitNext == CallMisfit

SpecMisfit == MisfitInit /\ [][MisfitNext]_vars

\* the rms of one (station, channel) pair, channel 1..3 a velocity
PairRms(o, y, i, ch) ==
    calculate_rms_misfit(correlate_and_shift_waveforms(o[i][ch + 1], y[i][ch + 1]).val, y[i][ch + 1]).val

\* the multiset of the terms: each value with the number of times it is added
TermBag(o, y) ==
    LET t == misfit_terms(o, y)
    IN  [v \in {t[k].val : k \in DOMAIN t} |-> Cardinality({k \in DOMAIN t : t[k].val = v})]

ExactSum(o, y) == SumSeq([k \in DOMAIN misfit_terms(o, y) |-> misfit_terms(o, y)[k].val])

Abs(x) == IF x < 0 THEN -x ELSE x

\* C9, as stated: the misfit is unchanged when the stations of both the
\* observations and the synthetics are permuted identically.
C9_AsStated ==
    Returned("calculate_summed_model_misfit") => ret.both.val = ret.base.val

\* C9, amended: model-misfit adds, without normalisation, one term
\* rms(align(obs[i][j], syn[i][j]), syn[i][j]) per station i and velocity channel
\* j; permuting the stations of obs and syn identically leaves the multiset of
\* these terms, and so their exact sum, unchanged, and the returned
\* floating-point sum unchanged up to the rounding of the additions, which are
\* made in another order (it can differ in the last digits); permuting only one
\* of the two lists can change the terms themselves.
C9_SameTermsUnderJointPermutation ==
    Returned("calculate_summed_model_misfit")
        => LET terms == misfit_terms(call.obs, call.syn)
               po == Permute(call.obs, call.perm)
               py == Permute(call.syn, call.perm)
           IN  /\ Len(terms) = 3 * Len(call.obs)
               /\ \A i \in DOMAIN call.obs : \A ch \in 1..3 :
                      terms[3 * (i - 1) + ch].val = PairRms(call.obs, call.syn, i, ch)
               /\ TermBag(po, py) = TermBag(call.obs, call.syn)
               /\ ExactSum(po, py) = ExactSum(call.obs, call.syn)
               /\ Abs(ret.both.val - ret.base.val) * Pow2(MantBits)
                      <= 2 * Len(terms) * Max(ret.both.val, ret.base.val)

C9_Witness ==
    /\ Returned("calculate_summed_model_misfit")
    /\ \E k \in DOMAIN call.perm : call.perm[k] # k
    /\ ret.both.val # ret.base.val
    /\ TermBag(call.obs, Permute(call.syn, call.perm)) # TermBag(call.obs, call.syn)
    /\ Abs(ret.one.val - ret.base.val) * Pow2(MantBits)
           > 2 * 3 * Len(call.obs) * Max(ret.one.val, ret.base.val)

----------------------------------------------------------------------------
(***************************************************************************)
(* Spec: the run of the script.  The observation directory holds 0..MaxSta *)
(* receivers; the ensemble directory holds the model directories a and b,  *)
(* of 1..MaxSta receivers each, listed b first, and a plain file c.  Every *)
(* receiver file holds the same 1..MaxN timesteps; the observations have   *)
(* one of the waveforms below, both models have one of them, and model b   *)
(* has it shifted by one of the offsets below.  The paths are taken to end *)
(* with "/", as path + i needs.                                            *)
(***************************************************************************)
StationNames == <<Receiver1, Receiver2, ReceiverX>>

Kinds == {"ramp", "pulse"}

Offsets == {0, 1, 3}

\* the velocity of channel ch (1..3) of station s at timestep t
Wave(kind, s, ch, t) ==
    IF kind = "ramp"
    THEN CASE ch = 1 -> t
           [] ch = 2 -> s
           [] ch = 3 -> -t
    ELSE CASE ch = 1 -> (IF t = 2 THEN 2 ELSE 0)
           [] ch = 2 -> 0
           [] ch = 3 -> (IF t = 1 THEN s ELSE 0)

WaveFile(kind, off, s, n) ==
    ReceiverFile([t \in 1..n |->
        Row(t, Wave(kind, s, 1, t) + off, Wave(kind, s, 2, t) + off, Wave(kind, s, 3, t) + off)])

\* a directory of nsta receivers, listed last name first, after the names in extra
ReceiverDir(kind, off, nsta, n, extra, defect) ==
    LET listing == extra \o [k \in 1..nsta |-> StationNames[nsta + 1 - k]]
    IN  Directory(listing, defect,
                  [x \in Range(listing) |->
                      IF \E s \in 1..nsta : StationNames[s] = x
                      THEN WaveFile(kind, off, CHOOSE s \in 1..nsta : StationNames[s] = x, n)
                      ELSE <<>>])

ModelA == <<"a">>
ModelB == <<"b">>
PlainC == <<"c">>

EnsembleDir(a, b) ==
    [listing |-> <<ModelB, PlainC, ModelA>>,
     entries |-> [x \in {ModelA, ModelB, PlainC} |->
                     IF x = ModelA THEN a
                     ELSE IF x = ModelB THEN b
                     ELSE [kind |-> "file", listing |-> <<>>, defect |-> {}, files |-> NoFiles]]]

Init ==
    /\ pc = "load_observations"
    /\ \E n \in 1..MaxN : \E f \in (-1)..MaxN :
       \E ko \in Kinds : \E no \in 0..MaxSta :
       \E km \in Kinds : \E ob \in Offsets :
       \E ns \in 1..MaxSta : \E d \in {{}, {ModelB}, {ModelA, ModelB}} :
           args = [obs_path |-> ReceiverDir(ko, 0, no, n, <<>>, {}),
                   ensemble_dir |->
                       EnsembleDir(ReceiverDir(km, 0, ns, n, <<XdmfA>>,
                                               IF ModelA \in d THEN {XdmfA} ELSE {}),
                                   ReceiverDir(km, ob, ns, n, <<XdmfA>>,
                                               IF ModelB \in d THEN {XdmfA} ELSE {})),
                   final_ind |-> f]
    /\ call = None /\ ret = None
    /\ obs_data = None /\ syn_data = None /\ model_dir_names = None
    /\ model_misfits = None /\ loop_i = None /\ min_ind = None
    /\ stdout = <<>>

Traceback(e) == <<"Traceback", e>>

\* lines 144-146
LoadObservations ==
    /\ pc = "load_observations"
    /\ \E r \in {load_observations(args.obs_path)} :
           IF r.err # None
           THEN /\ pc' = "error"
                /\ stdout' = stdout \o <<Traceback(r.err)>>
                /\ UNCHANGED obs_data
           ELSE /\ obs_data' = r.val
                /\ IF Len(Shape(r.val, 3)) < 3
                   THEN /\ pc' = "error"
                        /\ stdout' = stdout \o <<<<"Observations contain stations", Shape(r.val, 3)[1]>>,
                                                  Traceback("IndexError")>>
                   ELSE /\ pc' = "load_ensemble_waveforms"
                        /\ stdout' = stdout \o <<<<"Observations contain stations", Shape(r.val, 3)[1]>>,
                                                  <<"Observations contain time steps", Shape(r.val, 3)[3]>>>>
    /\ UNCHANGED <<call, ret, args, syn_data, model_dir_names, model_misfits, loop_i, min_ind>>

\* lines 148-152
LoadEnsembleWaveforms ==
    /\ pc = "load_ensemble_waveforms"
    /\ \E r \in {load_ensemble_waveforms(args.ensemble_dir, args.final_ind)} :
           IF r.err # None
           THEN /\ pc' = "error"
                /\ stdout' = stdout \o r.printed \o <<Traceback(r.err)>>
                /\ UNCHANGED <<syn_data, model_dir_names>>
           ELSE /\ syn_data' = r.val
                /\ model_dir_names' = r.dirs
                /\ IF Len(Shape(r.val, 4)) < 4
                   THEN /\ pc' = "error"
                        /\ stdout' = stdout \o r.printed \o <<Traceback("IndexError")>>
                   ELSE /\ pc' = "zeros"
                        /\ stdout' = stdout \o r.printed \o
                               <<<<"Synthetics contain stations", Shape(r.val, 4)[2]>>,
                                 <<"Synthetics contain time steps", Shape(r.val, 4)[4]>>>>
    /\ UNCHANGED <<call, ret, args, obs_data, model_misfits, loop_i, min_ind>>

\* line 155
Zeros ==
    /\ pc = "zeros"
    /\ model_misfits' = [k \in 1..Len(model_dir_names) |-> 0]
    /\ loop_i' = 0
    /\ pc' = "loop"
    /\ UNCHANGED <<call, ret, args, obs_data, syn_data, model_dir_names, min_ind, stdout>>

\* lines 157-158, one iteration
LoopBody ==
    /\ pc = "loop"
    /\ loop_i < Len(model_dir_names)
    /\ \E m \in {calculate_summed_model_misfit(obs_data, syn_data[loop_i + 1])} :
           IF m.err # None
           THEN /\ pc' = "error"
                /\ stdout' = stdout \o <<Traceback(m.err)>>
                /\ UNCHANGED <<model_misfits, loop_i>>
           ELSE /\ model_misfits' = [model_misfits EXCEPT ![loop_i + 1] = m.val]
                /\ loop_i' = loop_i + 1
                /\ UNCHANGED <<pc, stdout>>
    /\ UNCHANGED <<call, ret, args, obs_data, syn_data, model_dir_names, min_ind>>

\* lines 160-166
Report ==
    /\ pc = "loop"
    /\ loop_i = Len(model_dir_names)
    /\ min_ind' = argmin(model_misfits)
    /\ stdout' = stdout \o <<<<"List of all model misfits", model_misfits>>,
                             <<"yields the smallest misfit", model_dir_names[argmin(model_misfits) + 1],
                               model_misfits[argmin(model_misfits) + 1]>>,
                             <<"Done.">>>>
    /\ pc' = "done"
    /\ UNCHANGED <<call, ret, args, obs_data, syn_data, model_dir_names, model_misfits, loop_i>>

Next == LoadObservations \/ LoadEnsembleWaveforms \/ Zeros \/ LoopBody \/ Report

Spec == Init /\ [][Next]_vars

----------------------------------------------------------------------------
(***************************************************************************)
(* What the run is expected to compute, read off the files themselves.     *)
(***************************************************************************)
RunEnded == pc \in {"done", "error"}

Ndt == Len(args.ensemble_dir.entries[ModelA].files[Receiver1]) - 5

\* column 1 is the time, columns 8, 9, 10 the velocities
ColumnOf(ch) == IF ch = 1 THEN 1 ELSE ch + 6

\* the first T timesteps of the receivers of a directory, ascending by name
ExpectedRecord(dir, T) ==
    LET names == RuleNames(dir)
    IN  [k \in 1..Len(names) |->
            [ch \in 1..4 |-> [t \in 1..T |-> dir.files[names[k]][5 + t].cols[ColumnOf(ch)]]]]

ExpectedObs == ExpectedRecord(args.obs_path, Ndt - 1)

ExpectedModel(name) ==
    ExpectedRecord(args.ensemble_dir.entries[name], Retained(Ndt, args.final_ind))

Usable(name) == args.ensemble_dir.entries[name].defect = {}

\* the usable model directories, ascending by name
ExpectedNames ==
    (IF Usable(ModelA) THEN <<ModelA>> ELSE <<>>) \o (IF Usable(ModelB) THEN <<ModelB>> ELSE <<>>)

\* C1: once the per-model loop has finished, the misfit array has one entry per
\* collected model name, entry i is model-misfit(observations, member i) for the
\* i-th name in ascending order, and the reported winner is the lowest index
\* holding the minimum of the array.
C1_MisfitsParallelAndFirstMinimum ==
    pc = "done"
        => /\ model_dir_names = ExpectedNames
           /\ Len(model_misfits) = Len(model_dir_names)
           /\ \A i \in DOMAIN model_misfits :
                  model_misfits[i] =
                      calculate_summed_model_misfit(ExpectedObs, ExpectedModel(model_dir_names[i])).val
           /\ \A k \in DOMAIN model_misfits : model_misfits[min_ind + 1] <= model_misfits[k]
           /\ \A k \in 1..min_ind : model_misfits[k] > model_misfits[min_ind + 1]
           /\ stdout[Len(stdout) - 1] = <<"yields the smallest misfit", model_dir_names[min_ind + 1],
                                          model_misfits[min_ind + 1]>>

C1_Witness ==
    /\ pc = "done"
    /\ Len(model_dir_names) = 2
    /\ model_misfits[1] = model_misfits[2]
    /\ model_misfits[1] > 0
    /\ min_ind = 0

\* model a's files are the observed files, and model b's velocities are the
\* observed ones plus one nonzero constant
CopyAndOffset ==
    LET o == args.obs_path
        a == args.ensemble_dir.entries[ModelA]
        b == args.ensemble_dir.entries[ModelB]
        names == RuleNames(o)
    IN  /\ Usable(ModelA) /\ Usable(ModelB)
        /\ Len(names) >= 1
        /\ RuleNames(a) = names /\ RuleNames(b) = names
        /\ \A x \in Range(names) : a.files[x] = o.files[x]
        /\ \E c \in Offsets \ {0} : \A x \in Range(names) : \A t \in 1..Ndt :
               \A col \in 8..10 : b.files[x][5 + t].cols[col] = o.files[x][5 + t].cols[col] + c

MisfitOf(name) ==
    model_misfits[CHOOSE i \in DOMAIN model_dir_names : model_dir_names[i] = name]

SelectsAWithZero ==
    /\ pc = "done"
    /\ model_dir_names[min_ind + 1] = ModelA
    /\ MisfitOf(ModelA) = 0
    /\ MisfitOf(ModelB) > MisfitOf(ModelA)

\* C2, as stated: with model a an exact copy of the observations and model b the
\* observations plus a nonzero constant, at least one timestep retained, the run
\* selects a with misfit 0 and reports a strictly larger misfit for b.
C2_AsStated ==
    (/\ RunEnded
     /\ CopyAndOffset
     /\ Ndt - 1 >= 1
     /\ Retained(Ndt, args.final_ind) >= 1)
        => SelectsAWithZero

\* C2, amended: the same, in a run whose synthetic traces retain as many
\* timesteps as the observed ones (the default final_ind, or final_ind equal to
\* the number of timesteps less one): then the run selects a with misfit 0 and
\* reports a strictly larger misfit for b.
C2_CopySelectedWhenLengthsEqual ==
    (/\ RunEnded
     /\ CopyAndOffset
     /\ Ndt - 1 >= 1
     /\ Retained(Ndt, args.final_ind) = Ndt - 1)
        => SelectsAWithZero

C2_Witness ==
    /\ pc = "done"
    /\ CopyAndOffset
    /\ args.final_ind = Ndt - 1
    /\ Ndt >= 3
    /\ Len(obs_data) >= 2
    /\ SelectsAWithZero

Printed(what) == \E k \in DOMAIN stdout : stdout[k][1] = what

\* obs_data, syn_data hold the arrays once their sizes have been printed
ObsLoaded == Printed("Observations contain stations")

SynLoaded == Printed("Synthetics contain stations")

TracesOf(record) == {record[s][ch] : s \in DOMAIN record, ch \in 1..4}

\* C8, as stated: with --final_ind k, k >= 0, every trace the run loads, of the
\* observations and of every model, retains its first min(k, available) timesteps.
C8_AsStated ==
    args.final_ind >= 0
        => /\ ObsLoaded
                  => \A tr \in TracesOf(obs_data) : Len(tr) = Min(args.final_ind, Ndt)
           /\ SynLoaded
                  => \A m \in DOMAIN syn_data : \A tr \in TracesOf(syn_data[m]) :
                         Len(tr) = Min(args.final_ind, Ndt)

\* C8, amended: with --final_ind k, k >= 0, every trace the run loads from a
\* model directory of the ensemble retains exactly its first min(k, available)
\* timesteps; the traces of the observation directory are loaded with the
\* default and retain all their timesteps but the last, whatever k is.
C8_FinalIndTruncatesSyntheticsOnly ==
    args.final_ind >= 0
        => /\ ObsLoaded => obs_data = ExpectedRecord(args.obs_path, Ndt - 1)
           /\ SynLoaded
                  => \A m \in DOMAIN syn_data :
                         syn_data[m] = ExpectedRecord(args.ensemble_dir.entries[model_dir_names[m]],
                                                      Min(args.final_ind, Ndt))

C8_Witness ==
    /\ args.final_ind >= 0
    /\ ObsLoaded /\ SynLoaded
    /\ Len(obs_data) >= 1 /\ Len(syn_data) = 2
    /\ Min(args.final_ind, Ndt) < Ndt - 1
    /\ \A tr \in TracesOf(syn_data[1]) : Len(tr) = args.final_ind
    /\ \A tr \in TracesOf(obs_data) : Len(tr) = Ndt - 1

MoreSyntheticStations ==
    /\ ExpectedNames # <<>>
    /\ Len(RuleNames(args.obs_path)) < Len(RuleNames(args.ensemble_dir.entries[ModelA]))

\* the misfits are those of the models cut to the observed station count, and a
\* winner is reported
ExtraStationsIgnored ==
    /\ pc = "done"
    /\ \A i \in DOMAIN model_misfits :
           model_misfits[i] =
               calculate_summed_model_misfit(
                   ExpectedObs,
                   SubSeq(ExpectedModel(model_dir_names[i]), 1, Len(ExpectedObs))).val
    /\ min_ind \in 0..(Len(model_dir_names) - 1)
    /\ stdout[Len(stdout)] = <<"Done.">>

\* C10, as stated: when the models carry more stations than the observations the
\* run raises no error, each misfit is the sum over the first (observed-count)
\* stations only, and a best-fit model is reported.
C10_AsStated ==
    RunEnded /\ MoreSyntheticStations => ExtraStationsIgnored

\* C10, amended: the same, when the observations hold at least one station and
\* every synthetic trace retains at least one timestep and no more than the
\* observed traces do: no station count or identity is checked, the run raises
\* no error, each misfit is the sum over the first (observed-count) stations
\* only, and a best-fit model is reported.
C10_ExtraSyntheticStationsIgnored ==
    (/\ RunEnded
     /\ MoreSyntheticStations
     /\ Len(RuleNames(args.obs_path)) >= 1
     /\ Retained(Ndt, args.final_ind) >= 1
     /\ Retained(Ndt, args.final_ind) <= Ndt - 1)
        => ExtraStationsIgnored

C10_Witness ==
    /\ pc = "done"
    /\ MoreSyntheticStations
    /\ Len(obs_data) >= 1
    /\ Len(model_dir_names) = 2
    /\ Len(syn_data[1]) > Len(obs_data)
    /\ model_misfits[1] # model_misfits[2]

====
